---- MODULE Spec2Model ----
(***************************************************************************)
(* Model of Transformer/Framework/FiltersBase.py: the FilterBase policy    *)
(* interface and the CoverageFilterBase carry-over state machine.          *)
(*                                                                         *)
(* One filter object is followed from its construction.  The driver, the   *)
(* Structure collaborator (GetUniqueAtomicSubstitutions) and the           *)
(* StructureSet collaborator (Add) are outside the two source files and    *)
(* are modelled at their interface.                                        *)
(***************************************************************************)
EXTENDS Integers, Sequences, FiniteSets, TLC

\* ---------------------------------------------------------------------
\* Bounds
\* ---------------------------------------------------------------------

NumStructures == 2
MaxLen == 1
MaxDegeneracy == 2
NumSubstitutions == 2

\* ---------------------------------------------------------------------
\* Values
\* ---------------------------------------------------------------------

Structures == 1..NumStructures

\* CoverageFilterBase.CoverageLevels
CoverageLevels == <<"low", "medium", "full">>

\* Values a caller may hand to CoverageFilterBase.__init__; "default" is
\* the call without an argument.
CoverageArgs == {"low", "medium", "full", "default", "high", "Full"}

\* The classes the driver may instantiate: the plain policy, the coverage
\* class as it stands, and a concrete policy derived from the coverage
\* class that overrides IsMPSafe() and TestSubstitutedStructure().
Classes == {"FilterBase", "CoverageFilterBase", "Derived"}

\* A list-valued field holds Python's None or a list.
None == [isNone |-> TRUE, items |-> << >>]

List(items) == [isNone |-> FALSE, items |-> items]

IsNone(x) == x.isNone

\* An item of a structure list is either one structure or (see
\* FinaliseMergedStructureSet) a whole list of structures.
Plain(s) == [isList |-> FALSE, items |-> <<s>>]

Siblings(ss) == [isList |-> TRUE, items |-> ss]

NoIndex == -1

RECURSIVE SeqRange(_)
SeqRange(s) == IF s = << >> THEN {} ELSE {Head(s)} \cup SeqRange(Tail(s))

\* ---------------------------------------------------------------------
\* State
\* ---------------------------------------------------------------------

VARIABLES
    cls,                          \* class of the object the driver builds
    constructed,                  \* an instance exists
    raised,                       \* exception that ended the run, or "none"
    coverage,                     \* self._coverage
    substitutions,                \* self._substitutions
    printProgressUpdate,          \* self._printProgressUpdate
    substitutionIndex,            \* self._substitutionIndex
    lastFilteredStructures,       \* self._lastFilteredStructures
    lastFilteredDegeneracies,     \* self._lastFilteredDegeneracies
    currentFilteredStructures,    \* self._currentFilteredStructures
    currentFilteredDegeneracies,  \* self._currentFilteredDegeneracies
    aliased,                      \* the last and current fields hold the same list objects
    lifecycle,                    \* the driver's position in the call protocol
    lastCall,                     \* the method the driver called last
    returned,                     \* what that call returned
    warned,                       \* RuntimeWarnings that call issued
    genCalls,                     \* GetUniqueAtomicSubstitutions calls it made
    testCalls,                    \* TestSubstitutedStructure calls it made
    addCalls,                     \* structureSet.Add calls it made
    addCount,                     \* addCount at the end of that call
    loaded,                       \* the substitutions it looked up
    printed                       \* the lines it printed

vars == <<cls, constructed, raised, coverage, substitutions,
          printProgressUpdate, substitutionIndex,
          lastFilteredStructures, lastFilteredDegeneracies,
          currentFilteredStructures, currentFilteredDegeneracies, aliased,
          lifecycle, lastCall, returned, warned,
          genCalls, testCalls, addCalls, addCount, loaded, printed>>

fields == <<coverage, substitutions, printProgressUpdate, substitutionIndex,
            lastFilteredStructures, lastFilteredDegeneracies,
            currentFilteredStructures, currentFilteredDegeneracies, aliased>>

buffers == <<lastFilteredStructures, lastFilteredDegeneracies,
             currentFilteredStructures, currentFilteredDegeneracies, aliased>>

\* The record of a call that reached no collaborator, looked up no
\* substitution and printed nothing.
NoCollaboratorCalls ==
    /\ genCalls' = << >>
    /\ testCalls' = << >>
    /\ addCalls' = << >>
    /\ addCount' = 0
    /\ loaded' = << >>
    /\ printed' = << >>

\* ---------------------------------------------------------------------
\* Before construction
\* ---------------------------------------------------------------------

Init ==
    /\ cls \in Classes
    /\ constructed = FALSE
    /\ raised = "none"
    /\ coverage = "unset"
    /\ substitutions = << >>
    /\ printProgressUpdate = "unset"
    /\ substitutionIndex = NoIndex
    /\ lastFilteredStructures = None
    /\ lastFilteredDegeneracies = None
    /\ currentFilteredStructures = None
    /\ currentFilteredDegeneracies = None
    /\ aliased = FALSE
    /\ lifecycle = "new"
    /\ lastCall = "none"
    /\ returned = "None"
    /\ warned = 0
    /\ genCalls = << >>
    /\ testCalls = << >>
    /\ addCalls = << >>
    /\ addCount = 0
    /\ loaded = << >>
    /\ printed = << >>

\* ---------------------------------------------------------------------
\* Constructors
\* ---------------------------------------------------------------------

\* A constructor that skips the membership test.
CoverageIsValidUnchecked(c) == TRUE

\* CoverageFilterBase.__init__: the membership test on CoverageLevels.
CoverageIsValid(c) == c \in SeqRange(CoverageLevels)

\* FilterBase.__init__ and CoverageFilterBase.__init__(coverage).
Construct(arg) ==
    /\ ~constructed
    /\ raised = "none"
    /\ lastCall' = "__init__"
    /\ returned' = "None"
    /\ warned' = 0
    /\ NoCollaboratorCalls
    /\ IF cls = "FilterBase"
         THEN /\ constructed' = TRUE
              /\ lifecycle' = "constructed"
              /\ UNCHANGED <<raised, coverage>>
         ELSE LET c == IF arg = "default" THEN "full" ELSE arg IN
              IF CoverageIsValid(c)
                THEN /\ constructed' = TRUE
                     /\ coverage' = c
                     /\ lifecycle' = "constructed"
                     /\ UNCHANGED raised
                ELSE /\ raised' = "Exception"
                     /\ UNCHANGED <<constructed, coverage, lifecycle>>
    /\ UNCHANGED <<cls, substitutions, printProgressUpdate,
                   substitutionIndex, buffers>>

\* ---------------------------------------------------------------------
\* Initialise
\* ---------------------------------------------------------------------

\* The atom-type labels of the substitution sequence the driver passes.
AtomTypeLabels == <<"H", "He", "Li", "Be", "B">>

Substitutions ==
    [i \in 1..NumSubstitutions |-> <<AtomTypeLabels[i], AtomTypeLabels[i + 1]>>]

\* FilterBase.Initialise(substitutions, tolerance, printProgressUpdate,
\* ...): of the fields it stores, the substitutions and the progress flag
\* are the ones FinaliseMergedStructureSet reads.
Initialise(progress) ==
    /\ constructed
    /\ raised = "none"
    /\ lifecycle = "constructed"
    /\ substitutions' = Substitutions
    /\ printProgressUpdate' = progress
    /\ lifecycle' = "ready"
    /\ lastCall' = "Initialise"
    /\ returned' = "None"
    /\ warned' = 0
    /\ NoCollaboratorCalls
    /\ UNCHANGED <<cls, constructed, raised, coverage,
                   substitutionIndex, buffers>>

\* ---------------------------------------------------------------------
\* The driver's call protocol
\* ---------------------------------------------------------------------

\* Where the driver stands after a call: a step is open ("started") from
\* OnStartSubstitution until FinaliseMergedStructureSet closes it.
LifecycleAfter(call) ==
    CASE call = "OnStartSubstitution" -> "started"
      [] call = "FinaliseMergedStructureSet" -> "ready"
      [] OTHER -> lifecycle

Initialised ==
    constructed /\ raised = "none" /\ lifecycle \in {"ready", "started"}

\* A coverage class that keeps the filtered lists at every level.
KeepsFilteredAtEveryLevel == cls # "FilterBase"

\* The test of OnStartSubstitution and SetFilteredStructures: the coverage
\* class, and a level other than 'low'.
KeepsFiltered == cls # "FilterBase" /\ coverage # "low"

\* ---------------------------------------------------------------------
\* OnStartSubstitution
\* ---------------------------------------------------------------------

\* A shift that keeps what the last fields held.
ShiftedStructuresKept == lastFilteredStructures

\* What the step-boundary shift stores in _lastFilteredStructures.
ShiftedStructures == currentFilteredStructures

\* FilterBase.OnStartSubstitution and CoverageFilterBase.OnStartSubstitution
OnStartSubstitution(index) ==
    /\ Initialised
    /\ lastCall' = "OnStartSubstitution"
    /\ lifecycle' = LifecycleAfter("OnStartSubstitution")
    /\ returned' = "None"
    /\ warned' = 0
    /\ NoCollaboratorCalls
    /\ IF cls = "FilterBase"
         THEN /\ substitutionIndex' = index
              /\ UNCHANGED buffers
         ELSE IF KeepsFiltered
           THEN /\ lastFilteredStructures' = ShiftedStructures
                /\ lastFilteredDegeneracies' = currentFilteredDegeneracies
                /\ currentFilteredStructures' = None
                /\ currentFilteredDegeneracies' = None
                /\ aliased' = FALSE
                /\ substitutionIndex' = index
           ELSE UNCHANGED <<substitutionIndex, buffers>>
    /\ UNCHANGED <<cls, constructed, raised, coverage, substitutions,
                   printProgressUpdate>>

\* ---------------------------------------------------------------------
\* SetFilteredStructures
\* ---------------------------------------------------------------------

\* The structure lists the driver hands over: runs of consecutive
\* structures, at most MaxLen long.
DriverStructureLists ==
    {s \in UNION {[1..n -> Structures] : n \in 0..MaxLen} :
        \A i \in 1..Len(s) : i > 1 => s[i] = s[i - 1] + 1}

\* The degeneracies the driver hands over: 1 or MaxDegeneracy.
DriverDegeneracies == {1, MaxDegeneracy}

\* Its degeneracy lists: the first entry 1 or MaxDegeneracy, the others 1.
DriverDegeneracyLists(n) ==
    {d \in [1..n -> DriverDegeneracies] : \A i \in 1..n : i > 1 => d[i] = 1}

PlainItems(s) == [i \in 1..Len(s) |-> Plain(s[i])]

\* A store that appends the argument to what the field holds.
StoredAppended(held, argument) ==
    IF IsNone(held) THEN argument ELSE List(held.items \o argument.items)

\* What SetFilteredStructures stores in a current field: its argument.
Stored(held, argument) == argument

\* FilterBase.SetFilteredStructures and CoverageFilterBase.SetFilteredStructures;
\* same tells whether the arguments are the list objects of the last fields.
SetFilteredStructures(structures, degeneracies, same) ==
    /\ Initialised
    /\ lastCall' = "SetFilteredStructures"
    /\ lifecycle' = LifecycleAfter("SetFilteredStructures")
    /\ returned' = "None"
    /\ warned' = 0
    /\ NoCollaboratorCalls
    /\ IF KeepsFiltered
         THEN /\ currentFilteredStructures' =
                    Stored(currentFilteredStructures, structures)
              /\ currentFilteredDegeneracies' =
                    Stored(currentFilteredDegeneracies, degeneracies)
              /\ aliased' = same
         ELSE UNCHANGED <<currentFilteredStructures, currentFilteredDegeneracies,
                          aliased>>
    /\ UNCHANGED <<cls, constructed, raised, coverage, substitutions,
                   printProgressUpdate, substitutionIndex,
                   lastFilteredStructures, lastFilteredDegeneracies>>

\* The driver passes two new lists of equal length.
DriverSetsNewLists ==
    \E s \in DriverStructureLists : \E d \in DriverDegeneracyLists(Len(s)) :
        SetFilteredStructures(List(PlainItems(s)), List(d), FALSE)

\* The driver passes again the list objects it passed in the step before,
\* which the filter now holds in its last fields.
DriverSetsSameLists ==
    /\ ~IsNone(lastFilteredStructures)
    /\ \A i \in 1..Len(lastFilteredStructures.items) :
            ~lastFilteredStructures.items[i].isList
    /\ SetFilteredStructures(lastFilteredStructures, lastFilteredDegeneracies, TRUE)

\* ---------------------------------------------------------------------
\* Collaborators
\* ---------------------------------------------------------------------

\* Structure.AtomTypeToAtomTypeNumber: the label's place in the table.
AtomTypeToAtomTypeNumber(atomType) ==
    CHOOSE n \in 1..Len(AtomTypeLabels) : AtomTypeLabels[n] = atomType

\* structure.GetUniqueAtomicSubstitutions(atomTypeNumber1, atomTypeNumber2):
\* a finite list of children and the list of their raw multiplicities.  An
\* odd structure has one child, an even one has two; the first child's
\* multiplicity is atomTypeNumber1, the second child's is 1.
GetUniqueAtomicSubstitutions(structure, atomTypeNumber1, atomTypeNumber2) ==
    LET n == IF structure % 2 = 1 THEN 1 ELSE 2
    IN  << [k \in 1..n |-> ((structure + k - 1) % NumStructures) + 1],
           [k \in 1..n |-> IF k = 1 THEN atomTypeNumber1 ELSE 1] >>

\* structureSet.Add(structure, degeneracy): TRUE when newly inserted.  The
\* set keeps one entry per structure, whatever the degeneracies.  The set
\* is the driver's, handed to each finalise call; what it holds when the
\* call begins is an input of the call.
AddReturns(set, structure) == structure \notin set

AddResult(set, structure, degeneracy) == set \cup {structure}

\* ---------------------------------------------------------------------
\* The policy
\* ---------------------------------------------------------------------

\* FilterBase.TestSubstitutedStructure: accept all structures.
TestSubstitutedStructure(structure, degeneracy) == TRUE

\* The accept test the object answers with: the inherited one, or the
\* derived policy's override, which in this call rejects the structures
\* in rejects.
PolicyTest(rejects, structure, degeneracy) ==
    IF cls = "Derived" THEN structure \notin rejects
    ELSE TestSubstitutedStructure(structure, degeneracy)

\* What the policy may reject in one call, among the structures tested.
PolicyRejectSets(tested) == IF cls = "Derived" THEN SUBSET tested ELSE {{}}

\* ---------------------------------------------------------------------
\* FinaliseMergedStructureSet
\* ---------------------------------------------------------------------

\* The raw multiplicities passed on as they are.
ChildDegeneraciesRaw(newDegeneracies, degeneracy) == newDegeneracies

\* The multiplication of the raw multiplicities by the parent's degeneracy.
ChildDegeneracies(newDegeneracies, degeneracy) ==
    [k \in 1..Len(newDegeneracies) |-> newDegeneracies[k] * degeneracy]

\* What filteredStructures.append(...) receives for a rejected child.
RejectedItem(newStructures, newStructure) == Siblings(newStructures)

\* A guard without the length test.
FinaliseRetriesUnlessUnset ==
    /\ coverage # "low"
    /\ ~IsNone(lastFilteredStructures)

\* The guard of the two outer ifs: not 'low', and a non-empty last list.
FinaliseRetries ==
    /\ coverage # "low"
    /\ ~IsNone(lastFilteredStructures)
    /\ Len(lastFilteredStructures.items) > 0

\* An append at every level that retries.
AppendsFilteredAtMedium(filteredStructures) ==
    coverage # "low" /\ Len(filteredStructures) > 0

\* The guard of the append to the current lists.
AppendsFiltered(filteredStructures) ==
    coverage = "full" /\ Len(filteredStructures) > 0

\* The reporting switches a call reads: the progress flag Initialise
\* stored, and the module's _TQDM (whether tqdm could be imported) as the
\* call finds it.
Reporting(tqdm) == [print |-> printProgressUpdate, tqdm |-> tqdm]

ReportingSwitches == [print : BOOLEAN, tqdm : BOOLEAN]

\* progressBar = printProgressUpdate and _TQDM
ProgressBar(reporting) == reporting.print /\ reporting.tqdm

\* tqdm.tqdm(iterable): an iterator over the items of iterable, in their
\* order, that draws a bar as they are taken.
Tqdm(iterable) == iterable

\* Indices taken only when the iterator is wrapped.
IValuesWrappedOnly(reporting, n) ==
    IF reporting.tqdm THEN Tqdm([k \in 1..n |-> k - 1]) ELSE << >>

\* iValues: range(0, n), wrapped in tqdm.tqdm when _TQDM is set.
IValues(reporting, n) ==
    IF reporting.tqdm THEN Tqdm([k \in 1..n |-> k - 1])
    ELSE [k \in 1..n |-> k - 1]

\* The locals of the call before the loop, and the set it was handed.
FinaliseStart(structureSet) ==
    [set |-> structureSet, addCount |-> 0,
     filteredStructures |-> << >>, filteredDegeneracies |-> << >>,
     gen |-> << >>, test |-> << >>, add |-> << >>, raised |-> "none"]

\* The inner loop over zip(newStructures, newDegeneracies), from child k.
RECURSIVE TestChildren(_, _, _, _, _)
TestChildren(acc, newStructures, newDegeneracies, rejects, k) ==
    IF k > Len(newStructures) \/ k > Len(newDegeneracies) THEN acc
    ELSE
      LET newStructure == newStructures[k]
          newDegeneracy == newDegeneracies[k]
          accepted == PolicyTest(rejects, newStructure, newDegeneracy)
          tested == [acc EXCEPT
                       !.test = Append(@, <<newStructure, newDegeneracy, accepted>>)]
          after ==
            IF accepted
              THEN [tested EXCEPT
                      !.add = Append(@, <<newStructure, newDegeneracy,
                                          AddReturns(acc.set, newStructure)>>),
                      !.set = AddResult(@, newStructure, newDegeneracy),
                      !.addCount = IF AddReturns(acc.set, newStructure)
                                     THEN @ + 1 ELSE @]
              ELSE [tested EXCEPT
                      !.filteredStructures =
                          Append(@, RejectedItem(newStructures, newStructure)),
                      !.filteredDegeneracies = Append(@, newDegeneracy)]
      IN  TestChildren(after, newStructures, newDegeneracies, rejects, k + 1)

\* The outer loop, for i in iValues, over the last lists.  An entry that
\* is a list has no GetUniqueAtomicSubstitutions: the call ends there.
RECURSIVE RetryStructures(_, _, _, _, _, _)
RetryStructures(acc, structures, degeneracies, atomTypeNumbers, rejects, iValues) ==
    IF iValues = << >> THEN acc
    ELSE IF structures[Head(iValues) + 1].isList
      THEN [acc EXCEPT !.raised = "AttributeError"]
      ELSE
        LET structure == structures[Head(iValues) + 1].items[1]
            degeneracy == degeneracies[Head(iValues) + 1]
            new == GetUniqueAtomicSubstitutions(
                       structure, atomTypeNumbers[1], atomTypeNumbers[2])
            newStructures == new[1]
            newDegeneracies == ChildDegeneracies(new[2], degeneracy)
            generated == [acc EXCEPT !.gen = Append(@, structure)]
        IN  RetryStructures(
                TestChildren(generated, newStructures, newDegeneracies, rejects, 1),
                structures, degeneracies, atomTypeNumbers, rejects,
                Tail(iValues))

\* The structures the generator can return in this call: the children of
\* the entries of the last lists.  What the policy says of other
\* structures, and which others the set holds, makes no difference to the
\* call, so its inputs are drawn from these.
Candidates ==
    IF cls = "FilterBase" \/ ~FinaliseRetries \/ substitutionIndex = NoIndex
      THEN {}
    ELSE LET substitution == substitutions[substitutionIndex + 1]
             items == lastFilteredStructures.items
         IN  UNION { IF items[i].isList THEN {}
                     ELSE SeqRange(GetUniqueAtomicSubstitutions(
                              items[i].items[1],
                              AtomTypeToAtomTypeNumber(substitution[1]),
                              AtomTypeToAtomTypeNumber(substitution[2]))[1])
                     : i \in 1..Len(items) }

\* The sets the driver hands to the call: one that holds none of the
\* candidates, or one that holds them all already.
DriverStructureSets == {{}, Candidates}

\* The loop of the call in the present state, under the given reporting
\* switches.
FinaliseLoop(reporting, structureSet, rejects) ==
    LET substitution == substitutions[substitutionIndex + 1]
        atomTypeNumbers == << AtomTypeToAtomTypeNumber(substitution[1]),
                              AtomTypeToAtomTypeNumber(substitution[2]) >>
    IN  RetryStructures(FinaliseStart(structureSet),
                        lastFilteredStructures.items,
                        lastFilteredDegeneracies.items, atomTypeNumbers,
                        rejects,
                        IValues(reporting, Len(lastFilteredStructures.items)))

\* An append in place: the list object is extended, and a last field that
\* holds the same object shows the extended list.
LastAfterExtend(last, appended) == IF aliased THEN appended ELSE last

\* What a last field holds after the append to the current field: list +
\* list builds a new list, and the object the last field holds is not
\* written.
LastAfterAppend(last, appended) == last

\* The lines the call prints, up to the point where it ends.
FinalisePrints(reporting, acc, typeError, appended) ==
    LET line(on, text) == IF on THEN <<text>> ELSE << >>
        bar == ProgressBar(reporting)
        addedToSet == reporting.print /\ acc.addCount > 0
        addedToFiltered == reporting.print /\ appended
        beforeLoop == line(reporting.print, "Finalising merged structure set")
                        \o line(bar, "")
        afterLoop == line(bar, "")
                       \o line(addedToSet, "Added to merged structure set")
        afterAppend == line(addedToFiltered, "Added to the filtered list")
                         \o line(addedToSet \/ addedToFiltered, "")
    IN  IF acc.raised # "none" THEN beforeLoop
        ELSE IF typeError THEN beforeLoop \o afterLoop
        ELSE beforeLoop \o afterLoop \o afterAppend

\* What a call that retries does to the fields and to its collaborators,
\* under the given reporting switches.
FinaliseOutcome(reporting, structureSet, rejects) ==
    LET acc == FinaliseLoop(reporting, structureSet, rejects)
        appends == acc.raised = "none" /\ AppendsFiltered(acc.filteredStructures)
        \* None + list
        typeError == appends /\ IsNone(currentFilteredStructures)
        appended == appends /\ ~typeError
        appendedStructures ==
            List(currentFilteredStructures.items \o acc.filteredStructures)
        appendedDegeneracies ==
            List(currentFilteredDegeneracies.items \o acc.filteredDegeneracies)
    IN  [raised |-> IF acc.raised # "none" THEN acc.raised
                    ELSE IF typeError THEN "TypeError" ELSE "none",
         currentStructures |->
             IF appended THEN appendedStructures ELSE currentFilteredStructures,
         currentDegeneracies |->
             IF appended THEN appendedDegeneracies
             ELSE currentFilteredDegeneracies,
         lastStructures |->
             IF appended
               THEN LastAfterAppend(lastFilteredStructures, appendedStructures)
               ELSE lastFilteredStructures,
         lastDegeneracies |->
             IF appended
               THEN LastAfterAppend(lastFilteredDegeneracies, appendedDegeneracies)
               ELSE lastFilteredDegeneracies,
         aliased |-> IF appended THEN FALSE ELSE aliased,
         gen |-> acc.gen, test |-> acc.test, add |-> acc.add,
         addCount |-> acc.addCount,
         printed |-> FinalisePrints(reporting, acc, typeError, appended)]

\* FilterBase.FinaliseMergedStructureSet and
\* CoverageFilterBase.FinaliseMergedStructureSet(structureSet).  At full
\* coverage, where every call may lengthen the current lists, the driver
\* calls it at most once in a step.
FinaliseMergedStructureSet(structureSet, rejects, tqdm) ==
    /\ Initialised
    /\ (lifecycle = "started" \/ cls = "FilterBase" \/ coverage # "full")
    /\ lastCall' = "FinaliseMergedStructureSet"
    /\ lifecycle' = LifecycleAfter("FinaliseMergedStructureSet")
    /\ returned' = "None"
    /\ warned' = 0
    /\ IF cls # "FilterBase" /\ FinaliseRetries
         THEN IF substitutionIndex = NoIndex
           THEN \* self._substitutions[None]
                /\ raised' = "TypeError"
                /\ NoCollaboratorCalls
                /\ UNCHANGED buffers
           ELSE
              \E outcome \in {FinaliseOutcome(Reporting(tqdm), structureSet, rejects)} :
              /\ loaded' = <<substitutions[substitutionIndex + 1]>>
              /\ genCalls' = outcome.gen
              /\ testCalls' = outcome.test
              /\ addCalls' = outcome.add
              /\ addCount' = outcome.addCount
              /\ printed' = outcome.printed
              /\ raised' = outcome.raised
              /\ currentFilteredStructures' = outcome.currentStructures
              /\ currentFilteredDegeneracies' = outcome.currentDegeneracies
              /\ lastFilteredStructures' = outcome.lastStructures
              /\ lastFilteredDegeneracies' = outcome.lastDegeneracies
              /\ aliased' = outcome.aliased
         ELSE /\ NoCollaboratorCalls
              /\ UNCHANGED <<raised, buffers>>
    /\ UNCHANGED <<cls, constructed, coverage, substitutions,
                   printProgressUpdate, substitutionIndex>>

\* ---------------------------------------------------------------------
\* Capability queries and the accept test, called by the driver
\* ---------------------------------------------------------------------

\* FilterBase.IsMPSafe, or the derived policy's override.
IsMPSafeWarns == cls # "Derived"

\* A default that declares the policy safe.
IsMPSafeReturnsTrue == "True"

IsMPSafeReturns == IF cls = "Derived" THEN "True" ELSE "False"

\* FilterBase.RequiresFilteredStructures and
\* CoverageFilterBase.RequiresFilteredStructures
RequiresFilteredStructuresWarns == cls = "FilterBase"

\* An answer that is true at 'full' only.
RequiresFilteredStructuresAtFullOnly ==
    IF cls = "FilterBase" THEN "True"
    ELSE IF coverage = "full" THEN "True" ELSE "False"

RequiresFilteredStructuresReturns ==
    IF cls = "FilterBase" THEN "True"
    ELSE IF coverage # "low" THEN "True" ELSE "False"

\* FilterBase.TestSubstitutedStructure issues no warning.
TestSubstitutedStructureWarns == FALSE

\* The driver asks between steps.
Query(call, result, warns) ==
    /\ constructed
    /\ raised = "none"
    /\ lifecycle \in {"constructed", "ready"}
    /\ lastCall' = call
    /\ returned' = IF result THEN "True" ELSE "False"
    /\ warned' = IF warns THEN 1 ELSE 0
    /\ NoCollaboratorCalls
    /\ UNCHANGED <<cls, constructed, raised, fields, lifecycle>>

IsMPSafe == Query("IsMPSafe", IsMPSafeReturns = "True", IsMPSafeWarns)

RequiresFilteredStructures ==
    Query("RequiresFilteredStructures",
          RequiresFilteredStructuresReturns = "True",
          RequiresFilteredStructuresWarns)

DriverTests(rejects, structure, degeneracy) ==
    Query("TestSubstitutedStructure",
          PolicyTest(rejects, structure, degeneracy),
          TestSubstitutedStructureWarns)

Next ==
    \/ \E arg \in CoverageArgs : Construct(arg)
    \/ \E progress \in BOOLEAN : Initialise(progress)
    \/ \E index \in 0..(NumSubstitutions - 1) : OnStartSubstitution(index)
    \/ DriverSetsNewLists
    \/ DriverSetsSameLists
    \/ \E structureSet \in DriverStructureSets :
          \E rejects \in PolicyRejectSets(Candidates) :
              \E tqdm \in BOOLEAN :
                  FinaliseMergedStructureSet(structureSet, rejects, tqdm)
    \/ IsMPSafe
    \/ RequiresFilteredStructures
    \/ \E s \in Structures : \E d \in DriverDegeneracies :
          \E rejects \in PolicyRejectSets({s}) : DriverTests(rejects, s, d)

Spec == Init /\ [][Next]_vars

\* The runs in which the driver keeps to its protocol: per step one
\* OnStartSubstitution, then SetFilteredStructures calls, then one
\* FinaliseMergedStructureSet.
LifecycleNext ==
    \/ \E arg \in CoverageArgs : Construct(arg)
    \/ \E progress \in BOOLEAN : Initialise(progress)
    \/ lifecycle = "ready" /\ \E index \in 0..(NumSubstitutions - 1) :
                                  OnStartSubstitution(index)
    \/ lifecycle = "started" /\ DriverSetsNewLists
    \/ lifecycle = "started" /\ DriverSetsSameLists
    \/ \E structureSet \in DriverStructureSets :
          \E rejects \in PolicyRejectSets(Candidates) :
              \E tqdm \in BOOLEAN :
                  FinaliseMergedStructureSet(structureSet, rejects, tqdm)
    \/ IsMPSafe
    \/ RequiresFilteredStructures
    \/ \E s \in Structures : \E d \in DriverDegeneracies :
          \E rejects \in PolicyRejectSets({s}) : DriverTests(rejects, s, d)

LifecycleSpec == Init /\ [][LifecycleNext]_vars

\* ---------------------------------------------------------------------
\* What the retried children should be, from the collaborators alone
\* ---------------------------------------------------------------------

IsCoverageFilter == cls # "FilterBase" /\ constructed

FinaliseReturned == lastCall = "FinaliseMergedStructureSet"

AllPlain(list) == \A i \in 1..Len(list.items) : ~list.items[i].isList

\* The children of entry i of the last lists under the active
\* substitution, each with parent degeneracy x raw multiplicity.
ChildrenOfLast(i) ==
    LET parent == lastFilteredStructures.items[i].items[1]
        d == lastFilteredDegeneracies.items[i]
        substitution == substitutions[substitutionIndex + 1]
        raw == GetUniqueAtomicSubstitutions(parent,
                   AtomTypeToAtomTypeNumber(substitution[1]),
                   AtomTypeToAtomTypeNumber(substitution[2]))
    IN  [k \in 1..Len(raw[1]) |-> <<raw[1][k], d * raw[2][k]>>]

\* The children of the first n entries of the last lists, in order.
RECURSIVE ChildrenOfLastUpTo(_)
ChildrenOfLastUpTo(n) ==
    IF n = 0 THEN << >> ELSE ChildrenOfLastUpTo(n - 1) \o ChildrenOfLast(n)

\* A logged test <<structure, degeneracy, accepted>>.
PolicyAccepts(test) == test[3]

PolicyRejects(test) == ~test[3]

ChildOf(tests) == [k \in 1..Len(tests) |-> <<tests[k][1], tests[k][2]>>]

StructuresOf(children) == [k \in 1..Len(children) |-> Plain(children[k][1])]

DegeneraciesOf(children) == [k \in 1..Len(children) |-> children[k][2]]

\* The last n items of a list.
LastItems(list, n) ==
    IF n > Len(list.items) THEN << >>
    ELSE SubSeq(list.items, Len(list.items) - n + 1, Len(list.items))

\* ---------------------------------------------------------------------
\* C1
\* ---------------------------------------------------------------------

\* The state of the scenario before the finalise call of step 1: full
\* coverage, step 1 started with ([sA], [1]) shifted into the last lists,
\* no SetFilteredStructures call in this step, a policy that rejects sB.
C1_BeforeSecondFinalise ==
    LET sA == 1
        sB == 2
    IN
    /\ cls = "Derived"
    /\ coverage = "full"
    /\ raised = "none"
    /\ lifecycle = "started"
    /\ lastCall = "OnStartSubstitution"
    /\ substitutionIndex = 1
    /\ lastFilteredStructures = List(<<Plain(sA)>>)
    /\ lastFilteredDegeneracies = List(<<1>>)
    /\ IsNone(currentFilteredStructures)
    /\ ChildrenOfLast(1) = << <<sB, 2>> >>

\* C1: in the two-step scenario with full coverage (step 0 sets
\* ([sA], [1]); step 1 sets nothing; the generator gives sA the single
\* child sB with raw multiplicity 2 and the policy rejects sB), the
\* finalise call of step 1 completes with current == ([sB], [2]) and
\* leaves the result set as it was.
C1_ScenarioEndsWithRejectInCurrent ==
    [][ ( /\ C1_BeforeSecondFinalise
          /\ lastCall' = "FinaliseMergedStructureSet"
          /\ \E k \in 1..Len(testCalls') : PolicyRejects(testCalls'[k]) )
          => /\ raised' = "none"
             /\ currentFilteredStructures' = List(StructuresOf(ChildrenOfLast(1)))
             /\ currentFilteredDegeneracies' = List(<<2>>)
             /\ addCalls' = << >> ]_vars

\* ---------------------------------------------------------------------
\* C2
\* ---------------------------------------------------------------------

\* C2: with full coverage, a finalise call that retries the last lists
\* appends every child the policy rejects, the child itself with its
\* compounded degeneracy, after the entries the current lists already
\* have, so that the child is retried in the step after.
C2_RejectedChildrenAppended ==
    [][ ( /\ lastCall' = "FinaliseMergedStructureSet"
          /\ IsCoverageFilter
          /\ coverage = "full"
          /\ FinaliseRetries
          /\ AllPlain(lastFilteredStructures) )
          => LET rejected == SelectSeq(testCalls', PolicyRejects)
             IN  rejected # << >>
                   => /\ ChildOf(testCalls') =
                          ChildrenOfLastUpTo(Len(lastFilteredStructures.items))
                      /\ currentFilteredStructures'.items =
                          currentFilteredStructures.items \o StructuresOf(rejected)
                      /\ currentFilteredDegeneracies'.items =
                          currentFilteredDegeneracies.items \o DegeneraciesOf(rejected)
        ]_vars

\* ---------------------------------------------------------------------
\* C3
\* ---------------------------------------------------------------------

\* C3: with medium coverage a finalise call never changes the current
\* lists: the children it rejects are dropped, so nothing it retried is
\* carried into the next step unless the driver hands it over again.
C3_MediumFinaliseKeepsCurrent ==
    [][ ( /\ lastCall' = "FinaliseMergedStructureSet"
          /\ IsCoverageFilter
          /\ coverage = "medium" )
          => /\ currentFilteredStructures' = currentFilteredStructures
             /\ currentFilteredDegeneracies' = currentFilteredDegeneracies
             /\ raised' = "none" ]_vars

\* A medium finalise call has rejected a child while the driver's current
\* lists were set, and the current lists hold only what the driver set.
C3_Witness ==
    /\ IsCoverageFilter
    /\ coverage = "medium"
    /\ FinaliseReturned
    /\ \E k \in 1..Len(testCalls) : PolicyRejects(testCalls[k])
    /\ ~IsNone(currentFilteredStructures)
    /\ AllPlain(currentFilteredStructures)

\* ---------------------------------------------------------------------
\* C4
\* ---------------------------------------------------------------------

\* C4: with low coverage, whatever the driver has called, the last and
\* current lists are unset and no call has reached the generator, the
\* accept test or structureSet.Add.
C4_LowIsInert ==
    (IsCoverageFilter /\ coverage = "low")
      => /\ IsNone(lastFilteredStructures)
         /\ IsNone(lastFilteredDegeneracies)
         /\ IsNone(currentFilteredStructures)
         /\ IsNone(currentFilteredDegeneracies)
         /\ genCalls = << >>
         /\ testCalls = << >>
         /\ addCalls = << >>

\* A low-coverage filter has been through a step and its finalise call.
C4_Witness ==
    /\ IsCoverageFilter
    /\ coverage = "low"
    /\ FinaliseReturned
    /\ lifecycle = "ready"

\* ---------------------------------------------------------------------
\* C5
\* ---------------------------------------------------------------------

\* C5: in a run that keeps to the driver's protocol no call raises except
\* the constructor when it refuses the coverage level.
C5_OnlyConstructorRaises ==
    raised # "none" => (raised = "Exception" /\ ~constructed)

\* ---------------------------------------------------------------------
\* C6
\* ---------------------------------------------------------------------

\* A logged Add call <<structure, degeneracy, newly inserted>>.
AddInserted(add) == add[3]

\* The children the policy rejected in the finalise call just made.
RejectedTests == SelectSeq(testCalls, PolicyRejects)

\* C6: in a finalise call every child of a last entry (p, d) with raw
\* multiplicity m is tested with degeneracy d x m, is added with d x m when
\* accepted, and is stored with d x m in the current degeneracies when
\* rejected under full coverage.
C6_DegeneraciesCompound ==
    (IsCoverageFilter /\ FinaliseReturned /\ FinaliseRetries)
      => /\ ChildOf(testCalls) = ChildrenOfLastUpTo(Len(genCalls))
         /\ \A k \in 1..Len(addCalls) :
                \E j \in 1..Len(testCalls) :
                    ChildOf(addCalls)[k] = ChildOf(testCalls)[j]
         /\ (raised = "none" /\ coverage = "full" /\ RejectedTests # << >>)
              => LastItems(currentFilteredDegeneracies, Len(RejectedTests))
                   = DegeneraciesOf(RejectedTests)

\* A full-coverage finalise call has retried an entry of degeneracy
\* MaxDegeneracy whose child has raw multiplicity 2, and stored the
\* rejected child with twice MaxDegeneracy.
C6_Witness ==
    /\ IsCoverageFilter
    /\ FinaliseReturned
    /\ FinaliseRetries
    /\ raised = "none"
    /\ coverage = "full"
    /\ substitutionIndex = 1
    /\ lastFilteredDegeneracies.items[1] = MaxDegeneracy
    /\ RejectedTests # << >>
    /\ RejectedTests[1][2] = MaxDegeneracy * 2
    /\ LastItems(currentFilteredDegeneracies, Len(RejectedTests))[1]
         = MaxDegeneracy * 2

\* ---------------------------------------------------------------------
\* C7
\* ---------------------------------------------------------------------

ValidCoverageArgs == {"low", "medium", "full", "default"}

\* C7: constructing the coverage filter with low, medium or full, or with
\* no argument (then full), succeeds and stores the level; with any other
\* value it raises and no instance comes to exist.
C7_ConstructorChecksCoverage ==
    [][ \A arg \in CoverageArgs :
          (cls # "FilterBase" /\ Construct(arg))
            => IF arg \in ValidCoverageArgs
                 THEN /\ constructed'
                      /\ raised' = "none"
                      /\ coverage' = (IF arg = "default" THEN "full" ELSE arg)
                 ELSE /\ ~constructed'
                      /\ raised' = "Exception"
                      /\ coverage' = "unset" ]_vars

\* The constructor has refused a coverage value.
C7_Witness ==
    /\ cls # "FilterBase"
    /\ lastCall = "__init__"
    /\ raised = "Exception"
    /\ ~constructed

\* ---------------------------------------------------------------------
\* C8
\* ---------------------------------------------------------------------

\* The driver's last call was an inherited FilterBase default.
DefaultAnswered(call) ==
    /\ lastCall = call
    /\ CASE call = "IsMPSafe" -> cls # "Derived"
         [] call = "RequiresFilteredStructures" -> cls = "FilterBase"
         [] call = "TestSubstitutedStructure" -> cls # "Derived"

C9_RequiresFilteredFollowsCoverage ==
    /\ [](IsCoverageFilter
            => /\ RequiresFilteredStructuresReturns =
                    (IF coverage \in {"medium", "full"} THEN "True" ELSE "False")
               /\ lastCall = "RequiresFilteredStructures"
                    => /\ returned =
                            (IF coverage \in {"medium", "full"}
                               THEN "True" ELSE "False")
                       /\ warned = 0)
    /\ [][constructed => coverage' = coverage]_vars

\* A medium-coverage filter that already holds lists has answered true.
C9_Witness ==
    /\ IsCoverageFilter
    /\ coverage = "medium"
    /\ lastCall = "RequiresFilteredStructures"
    /\ returned = "True"
    /\ ~IsNone(lastFilteredStructures)

\* ---------------------------------------------------------------------
\* C10
\* ---------------------------------------------------------------------

\* C10: a finalise call that returns has passed to structureSet.Add
\* exactly the children the policy accepted, has counted the Add calls that
\* inserted, and under full coverage has put each rejected child, itself
\* and once, at the end of the current lists with its degeneracy.
C10_EachChildHandledOnce ==
    (IsCoverageFilter /\ FinaliseReturned /\ FinaliseRetries /\ raised = "none")
      => /\ ChildOf(addCalls) = ChildOf(SelectSeq(testCalls, PolicyAccepts))
         /\ addCount = Len(SelectSeq(addCalls, AddInserted))
         /\ (coverage = "full" /\ RejectedTests # << >>)
              => /\ LastItems(currentFilteredStructures, Len(RejectedTests))
                      = StructuresOf(RejectedTests)
                 /\ LastItems(currentFilteredDegeneracies, Len(RejectedTests))
                      = DegeneraciesOf(RejectedTests)

\* ---------------------------------------------------------------------
\* C11
\* ---------------------------------------------------------------------

StepIndices == 0..(NumSubstitutions - 1)

\* C11: on a coverage filter whose level is not low, OnStartSubstitution(index)
\* called in any state leaves in the last fields what the current fields
\* held (structures and degeneracies), leaves the current fields unset and
\* records index; what the last fields held is gone, so a second call right
\* after the first leaves all four fields unset.
C11_OnStartShifts ==
    [][ \A index \in StepIndices :
          (IsCoverageFilter /\ coverage # "low" /\ OnStartSubstitution(index))
            => /\ lastFilteredStructures' = currentFilteredStructures
               /\ lastFilteredDegeneracies' = currentFilteredDegeneracies
               /\ IsNone(currentFilteredStructures')
               /\ IsNone(currentFilteredDegeneracies')
               /\ substitutionIndex' = index
               /\ raised' = "none"
               /\ lastCall = "OnStartSubstitution"
                    => /\ IsNone(lastFilteredStructures')
                       /\ IsNone(lastFilteredDegeneracies') ]_vars

\* A shift has moved a non-empty pair of lists into the last fields and
\* recorded step 1.
C11_Witness ==
    /\ IsCoverageFilter
    /\ coverage # "low"
    /\ lastCall = "OnStartSubstitution"
    /\ substitutionIndex = 1
    /\ ~IsNone(lastFilteredStructures)
    /\ Len(lastFilteredStructures.items) > 0
    /\ Len(lastFilteredDegeneracies.items) = Len(lastFilteredStructures.items)
    /\ IsNone(currentFilteredStructures)
    /\ IsNone(currentFilteredDegeneracies)

\* ---------------------------------------------------------------------
\* C12
\* ---------------------------------------------------------------------

\* C12: on a coverage filter whose level is low, OnStartSubstitution(index)
\* records index as the active step index and changes nothing else of the
\* filter.
C12_LowOnStartRecordsIndex ==
    [][ \A index \in StepIndices :
          (IsCoverageFilter /\ coverage = "low" /\ OnStartSubstitution(index))
            => /\ substitutionIndex' = index
               /\ UNCHANGED <<coverage, substitutions, buffers>> ]_vars

\* ---------------------------------------------------------------------
\* C13
\* ---------------------------------------------------------------------

\* C13: a finalise call leaves the last lists as they were, element for
\* element, at every coverage level, whether or not it appended rejects to
\* the current lists and also when the current fields held the same list
\* objects as the last fields; the last lists change in
\* OnStartSubstitution only.
C13_FinaliseKeepsLast ==
    [][ /\ lastCall' = "FinaliseMergedStructureSet"
             => /\ lastFilteredStructures' = lastFilteredStructures
                /\ lastFilteredDegeneracies' = lastFilteredDegeneracies
        /\ ( \/ lastFilteredStructures' # lastFilteredStructures
             \/ lastFilteredDegeneracies' # lastFilteredDegeneracies )
             => lastCall' = "OnStartSubstitution" ]_vars

\* A full-coverage finalise call has appended rejects to current lists
\* that began as the lists the last fields hold, and the last lists are
\* still the shorter ones.
C13_Witness ==
    /\ IsCoverageFilter
    /\ coverage = "full"
    /\ FinaliseReturned
    /\ raised = "none"
    /\ RejectedTests # << >>
    /\ ~IsNone(lastFilteredStructures)
    /\ ~IsNone(currentFilteredStructures)
    /\ Len(lastFilteredStructures.items) > 0
    /\ Len(currentFilteredStructures.items)
          = Len(lastFilteredStructures.items) + Len(RejectedTests)
    /\ SubSeq(currentFilteredStructures.items, 1,
              Len(lastFilteredStructures.items)) = lastFilteredStructures.items

\* ---------------------------------------------------------------------
\* C14
\* ---------------------------------------------------------------------

\* C14: on a coverage filter whose level is not low the last and current
\* fields never hold the same list object, whatever the driver calls and
\* also when it passes the same list objects in consecutive steps; no call
\* puts what the last fields hold into the current fields.
C14_NeverSameObject ==
    (IsCoverageFilter /\ coverage # "low") => ~aliased

\* ---------------------------------------------------------------------
\* C15
\* ---------------------------------------------------------------------

\* A pair of fields is aligned: both unset, or two lists of one length
\* whose structure entries are each one structure, the one its degeneracy
\* belongs to.
IndexAligned(structures, degeneracies) ==
    /\ IsNone(structures) = IsNone(degeneracies)
    /\ Len(structures.items) = Len(degeneracies.items)
    /\ AllPlain(structures)

\* C15: when every SetFilteredStructures call passes two lists of equal
\* length, the last pair and the current pair are index-aligned in every
\* state: equal lengths, and at each index the degeneracy of the structure
\* at that index, the entries appended by a full-coverage finalise call
\* included.
C15_BuffersIndexAligned ==
    IsCoverageFilter
      => /\ IndexAligned(lastFilteredStructures, lastFilteredDegeneracies)
         /\ IndexAligned(currentFilteredStructures, currentFilteredDegeneracies)

\* ---------------------------------------------------------------------
\* C16
\* ---------------------------------------------------------------------

\* C16: on a coverage filter whose level is not low,
\* SetFilteredStructures(S, D) leaves exactly (S, D) in the current fields
\* whatever they held, rejects appended by a finalise call included, and
\* leaves the last fields and the step index alone and makes no Add call.
C16_SetOverwrites ==
    [][ ( /\ lastCall' = "SetFilteredStructures"
          /\ IsCoverageFilter
          /\ coverage # "low" )
          => /\ \A s \in DriverStructureLists :
                   \A d \in DriverDegeneracyLists(Len(s)) :
                     SetFilteredStructures(List(PlainItems(s)), List(d), FALSE)
                       => /\ currentFilteredStructures' = List(PlainItems(s))
                          /\ currentFilteredDegeneracies' = List(d)
                          /\ UNCHANGED <<lastFilteredStructures,
                                         lastFilteredDegeneracies,
                                         substitutionIndex>>
                          /\ addCalls' = << >>
             /\ SetFilteredStructures(lastFilteredStructures,
                                      lastFilteredDegeneracies, TRUE)
                   => /\ currentFilteredStructures' = lastFilteredStructures
                      /\ currentFilteredDegeneracies' = lastFilteredDegeneracies
                      /\ UNCHANGED <<lastFilteredStructures,
                                     lastFilteredDegeneracies,
                                     substitutionIndex>>
                      /\ addCalls' = << >> ]_vars

\* A full-coverage filter has been handed lists after the finalise call
\* of the step, and holds them beside a non-empty last pair.
C16_Witness ==
    /\ IsCoverageFilter
    /\ coverage = "full"
    /\ lastCall = "SetFilteredStructures"
    /\ lifecycle = "ready"
    /\ ~IsNone(lastFilteredStructures)
    /\ Len(lastFilteredStructures.items) > 0
    /\ ~IsNone(currentFilteredStructures)
    /\ Len(currentFilteredStructures.items) > 0
    /\ AllPlain(currentFilteredStructures)

\* ---------------------------------------------------------------------
\* C17
\* ---------------------------------------------------------------------

LastIsEmpty ==
    IsNone(lastFilteredStructures) \/ Len(lastFilteredStructures.items) = 0

\* C17: at every coverage level a finalise call made while the last list
\* is unset or has no entries does nothing: it calls neither the
\* generator nor the accept test nor structureSet.Add, looks up no
\* substitution, raises nothing and leaves the last and current lists as
\* they were.
C17_FinaliseNoOpOnEmptyLast ==
    [][ (IsCoverageFilter /\ LastIsEmpty
           /\ lastCall' = "FinaliseMergedStructureSet")
          => /\ genCalls' = << >>
             /\ testCalls' = << >>
             /\ addCalls' = << >>
             /\ addCount' = 0
             /\ loaded' = << >>
             /\ raised' = "none"
             /\ UNCHANGED buffers ]_vars

\* A full-coverage finalise call has returned with an empty list in the
\* last field and the driver's entries still in the current lists.
C17_Witness ==
    /\ IsCoverageFilter
    /\ coverage = "full"
    /\ FinaliseReturned
    /\ ~IsNone(lastFilteredStructures)
    /\ Len(lastFilteredStructures.items) = 0
    /\ ~IsNone(currentFilteredStructures)
    /\ Len(currentFilteredStructures.items) > 0
    /\ loaded = << >>

\* ---------------------------------------------------------------------
\* C18
\* ---------------------------------------------------------------------

\* What a finalise call leaves that is not reporting: the exception, the
\* four lists, and the generator, accept-test and Add calls in order (the
\* Add calls and the set handed in give the set's contents).
ResultsOf(outcome) ==
    <<outcome.raised,
      outcome.lastStructures, outcome.lastDegeneracies,
      outcome.currentStructures, outcome.currentDegeneracies,
      outcome.gen, outcome.test, outcome.add>>

\* The results of the call just made are those of a call with the given
\* set and policy answers under the given reporting switches.
SameResults(reporting, structureSet, rejects) ==
    \E outcome \in {FinaliseOutcome(reporting, structureSet, rejects)} :
        ResultsOf(outcome)
          = <<raised',
              lastFilteredStructures', lastFilteredDegeneracies',
              currentFilteredStructures', currentFilteredDegeneracies',
              genCalls', testCalls', addCalls'>>

\* The structures the policy rejected in the call just made.
RejectedInCall ==
    {testCalls'[k][1] : k \in {j \in 1..Len(testCalls') : ~testCalls'[j][3]}}

\* C18: reporting does not influence results.  Whatever the progress flag
\* given to Initialise and whether or not tqdm is available, a finalise
\* call made in the same state with the same set and the same policy
\* answers makes the same generator, accept-test and Add calls and leaves
\* the same last and current lists; the progress flag does not change
\* once Initialise has stored it.
C18_ReportingDoesNotInterfere ==
    [][ /\ ( /\ lastCall' = "FinaliseMergedStructureSet"
             /\ IsCoverageFilter
             /\ FinaliseRetries )
             => \E structureSet \in DriverStructureSets :
                  \A reporting \in ReportingSwitches :
                    SameResults(reporting, structureSet, RejectedInCall)
        /\ lifecycle # "constructed"
             => printProgressUpdate' = printProgressUpdate ]_vars

\* A finalise call has retried and rejected children while it printed
\* its progress lines, the blank lines around the bar included.
C18_Witness ==
    /\ IsCoverageFilter
    /\ FinaliseReturned
    /\ FinaliseRetries
    /\ printProgressUpdate = TRUE
    /\ Len(printed) >= 4
    /\ printed[2] = ""
    /\ RejectedTests # << >>
    /\ addCalls # << >>
    /\ raised = "none"

====
